---------------------------- MODULE Spec2Model ----------------------------
(***************************************************************************)
(* Model of Magnum's Text::TextRenderer (src/Text/TextRenderer.cpp) and of *)
(* Math::DualComplex (src/Math/DualComplex.h).                             *)
(*                                                                         *)
(* Conventions                                                             *)
(*  - C++ arrays, std::vector and mapped buffer regions are functions with *)
(*    domain 0..n-1, so that positions[1] of the code is positions[1] here.*)
(*  - Vector2 is a pair <<x, y>>.  Scalars are integers; the shaper values *)
(*    used are multiples of 64*font.size(), so the float division of       *)
(*    renderGlyph is exact and \div computes it.                           *)
(*  - std::uint32_t products (glyphCount*4, glyphCount*6) stay far below   *)
(*    2^31 within the bounds, so they are not reduced; the narrower types  *)
(*    GLubyte and GLushort are reduced modulo 2^8 and 2^16 (Wrap).         *)
(*  - Contents of a buffer that the code never wrote (setData with nullptr,*)
(*    map with InvalidateBuffer, new char[]) are unspecified: every such   *)
(*    operation takes the fill value as a nondeterministic input.          *)
(***************************************************************************)
EXTENDS Integers, Sequences, FiniteSets, TLC

(***************************************************************************)
(* Bounds of the model.                                                    *)
(***************************************************************************)
\* largest glyph count given to reserve() in Spec
MaxCapacity == 2
\* longest text given to the render entry points in Spec
MaxTextLen == 2
\* largest glyph count given to reserve() in SpecIndices
MaxReserve == 45
\* SpecSelect tries the vertex counts 0..MaxLowVertexCount and
\* HighVertexCountFrom..HighVertexCountFrom+MaxHighSpan
MaxLowVertexCount == 270
HighVertexCountFrom == 65525
MaxHighSpan == 20
\* components of a dual complex number range over -MaxComponent..MaxComponent
MaxComponent == 2

\* unspecified contents of storage the code has not written
GarbageValues == {0, 255}

Chars == {"a", "b"}

Texts == UNION {[1..n -> Chars] : n \in 0..MaxTextLen}

(***************************************************************************)
(* Vector2 and Rectangle (Magnum's Math/Vector2.h, Math/Geometry/Rectangle)*)
(***************************************************************************)
VecAdd(a, b) == <<a[1] + b[1], a[2] + b[2]>>

VecSub(a, b) == <<a[1] - b[1], a[2] - b[2]>>

VecMul(a, s) == <<a[1] * s, a[2] * s>>

VecDiv(a, s) == <<a[1] \div s, a[2] \div s>>

\* Vector2 cursorPosition; (default construction zero-fills)
VecZero == <<0, 0>>

Rectangle(bl, tr) == [bottomLeft |-> bl, topRight |-> tr]

\* Rectangle rectangle; (default construction)
RectangleDefault == Rectangle(VecZero, VecZero)

fromSize(bl, sz) == Rectangle(bl, VecAdd(bl, sz))

left(r) == r.bottomLeft[1]

bottom(r) == r.bottomLeft[2]

right(r) == r.topRight[1]

top(r) == r.topRight[2]

bottomLeft(r) == r.bottomLeft

topRight(r) == r.topRight

topLeft(r) == <<left(r), top(r)>>

bottomRight(r) == <<right(r), bottom(r)>>

RectSize(r) == VecSub(r.topRight, r.bottomLeft)

(***************************************************************************)
(* The font and the shaper, the two collaborators of TextLayouter.         *)
(***************************************************************************)
\* font.size()
FontSize == 2

\* the size the renderer was constructed with / the static calls are given
RenderSize == 3

\* font[codepoint]: (texturePosition, textureCoordinates)
Font(codepoint) ==
    IF codepoint = 1
    THEN <<Rectangle(<<0, 0>>, <<1, 1>>), Rectangle(<<0, 0>>, <<1, 1>>)>>
    ELSE <<Rectangle(<<0, -1>>, <<2, 2>>), Rectangle(<<1, 0>>, <<3, 1>>)>>

\* hb_shape for one character: glyph info and glyph position, in 1/64 units
ShapeChar(ch) ==
    IF ch = "a"
    THEN [codepoint |-> 1, x_offset |-> 0, y_offset |-> 0,
          x_advance |-> 64 * FontSize, y_advance |-> 0]
    ELSE [codepoint |-> 2, x_offset |-> 64 * FontSize,
          y_offset |-> -(64 * FontSize),
          x_advance |-> 2 * 64 * FontSize, y_advance |-> 64 * FontSize]

\* TextLayouter::TextLayouter: glyph i of the code is glyphs[i+1]
TextLayouter(sz, text) ==
    [size |-> sz, glyphs |-> [i \in 1..Len(text) |-> ShapeChar(text[i])]]

glyphCount(layouter) == Len(layouter.glyphs)

\* a faulty variant of renderGlyph: the glyph offset is left out of the quad position
renderGlyph_NoOffset(layouter, cursorPosition, i) ==
    LET g == layouter.glyphs[i + 1]
        texturePosition == Font(g.codepoint)[1]
        textureCoordinates == Font(g.codepoint)[2]
        advance == VecDiv(<<g.x_advance, g.y_advance>>, 64 * FontSize)
        quadPosition == fromSize(
            VecMul(VecAdd(cursorPosition,
                          <<left(texturePosition), bottom(texturePosition)>>),
                   layouter.size),
            VecMul(RectSize(texturePosition), layouter.size))
    IN  <<quadPosition, textureCoordinates, advance>>

\* TextLayouter::renderGlyph: (quadPosition, textureCoordinates, advance)
renderGlyph(layouter, cursorPosition, i) ==
    LET g == layouter.glyphs[i + 1]
        texturePosition == Font(g.codepoint)[1]
        textureCoordinates == Font(g.codepoint)[2]
        offset == VecDiv(<<g.x_offset, g.y_offset>>, 64 * FontSize)
        advance == VecDiv(<<g.x_advance, g.y_advance>>, 64 * FontSize)
        quadPosition == fromSize(
            VecMul(VecAdd(VecAdd(cursorPosition, offset),
                          <<left(texturePosition), bottom(texturePosition)>>),
                   layouter.size),
            VecMul(RectSize(texturePosition), layouter.size))
    IN  <<quadPosition, textureCoordinates, advance>>

(***************************************************************************)
(* createIndices<T>                                                        *)
(***************************************************************************)
\* conversion of a std::uint32_t value to T, T of the given width in bits
Wrap(v, bits) ==
    IF bits = 8 THEN v % 256 ELSE IF bits = 16 THEN v % 65536 ELSE v

RECURSIVE createIndicesLoop(_, _, _, _)
\* the loop of createIndices<T> from glyph i on; out is the output array at
\* T's width.  pos+1 .. pos+5 are int sums (integer promotion), the stored
\* values vertex+1 .. vertex+3 are converted back to T.
createIndicesLoop(bits, out, i, count) ==
    IF i = count THEN out
    ELSE LET vertex == Wrap(i * 4, bits)
             pos == Wrap(i * 6, bits)
         IN  createIndicesLoop(bits,
                 [out EXCEPT ![pos] = vertex,
                             ![pos + 1] = Wrap(vertex + 1, bits),
                             ![pos + 2] = Wrap(vertex + 2, bits),
                             ![pos + 3] = Wrap(vertex + 1, bits),
                             ![pos + 4] = Wrap(vertex + 3, bits),
                             ![pos + 5] = Wrap(vertex + 2, bits)],
                 i + 1, count)

createIndices(bits, output, count) == createIndicesLoop(bits, output, 0, count)

\* point<2>: swizzle<'x', 'y', '1'>
point(vec) == <<vec[1], vec[2], 1>>

\* Vector3::xy()
xy(p) == <<p[1], p[2]>>

\* struct Vertex<2>
Vertex(position, texcoords) == [position |-> position, texcoords |-> texcoords]

\* sizeof(Vertex<2>): Point2D (3 floats) and Vector2 (2 floats)
SizeofVertex == 20

SizeofGLushort == 2

SizeofGLuint == 4

\* an array of n elements nobody has written
Uninitialized(n, fill) == [p \in 0..(n - 1) |-> fill]

UninitializedVertex(g) == Vertex(<<g, g, g>>, <<g, g>>)

Size(v) == Cardinality(DOMAIN v)

\* std::vector::insert(end(), {a0, a1, a2, a3})
InsertAtEnd(v, four) ==
    LET n == Size(v)
    IN  [p \in 0..(n + 3) |-> IF p < n THEN v[p] ELSE four[p - n + 1]]

(***************************************************************************)
(* Buffer and Mesh as TextRenderer uses them.  misuse records a map() of a *)
(* buffer that is mapped or an unmap() of one that is not.                 *)
(***************************************************************************)
BufferNew == [size |-> 0, data |-> Uninitialized(0, 0), mapped |-> FALSE,
              misuse |-> FALSE]

\* Buffer::setData(size, data, usage)
setData(buf, sz, data) == [buf EXCEPT !.size = sz, !.data = data]

\* Buffer::map(0, length, InvalidateBuffer|Write): the previous contents of the
\* buffer are discarded
map(buf, fill) ==
    [buf EXCEPT !.mapped = TRUE,
                !.misuse = @ \/ buf.mapped,
                !.data = [p \in DOMAIN buf.data |-> fill]]

\* Buffer::unmap()
unmap(buf) == [buf EXCEPT !.mapped = FALSE, !.misuse = @ \/ ~buf.mapped]

MeshNew == [primitive |-> "Triangles", vertexCount |-> 0, indexCount |-> 0,
            indexType |-> "Unset", indexStart |-> 0, indexEnd |-> 0]

\* width in bits of the elements of a Mesh::IndexType
IndexTypeBits(indexType) ==
    IF indexType = "UnsignedByte" THEN 8
    ELSE IF indexType = "UnsignedShort" THEN 16 ELSE 32

(***************************************************************************)
(* Index type, allocation size and prefill width, as reserve() and the     *)
(* GPU-buffer static render() select them from vertexCount.                *)
(***************************************************************************)
\* a faulty variant of reserveIndexType: the first threshold moved past 256
reserveIndexType_Off(vertexCount) ==
    IF vertexCount < 257 THEN "UnsignedByte"
    ELSE IF vertexCount < 65535 THEN "UnsignedShort"
    ELSE "UnsignedInt"

reserveIndexType(vertexCount) ==
    IF vertexCount < 255 THEN "UnsignedByte"
    ELSE IF vertexCount < 65535 THEN "UnsignedShort"
    ELSE "UnsignedInt"

reserveIndicesSize(vertexCount, indexCount) ==
    IF vertexCount < 255 THEN indexCount * SizeofGLushort
    ELSE IF vertexCount < 65535 THEN indexCount * SizeofGLushort
    ELSE indexCount * SizeofGLuint

\* a faulty variant of reservePrefillBits: the prefill switches to GLushort at 256
reservePrefillBits_Off(vertexCount) ==
    IF vertexCount < 256 THEN 8 ELSE IF vertexCount < 65535 THEN 16 ELSE 32

\* the createIndices<T> instantiation that prefills the buffer in reserve()
reservePrefillBits(vertexCount) ==
    IF vertexCount < 255 THEN 8 ELSE IF vertexCount < 65535 THEN 16 ELSE 32

staticIndexType(vertexCount) ==
    IF vertexCount < 255 THEN "UnsignedByte"
    ELSE IF vertexCount < 65535 THEN "UnsignedShort"
    ELSE "UnsignedInt"

staticIndicesSize(vertexCount, indexCount) ==
    IF vertexCount < 255 THEN indexCount * SizeofGLushort
    ELSE IF vertexCount < 65535 THEN indexCount * SizeofGLushort
    ELSE indexCount * SizeofGLuint

\* the createIndices<T> instantiation of the GPU-buffer static render()
staticFillBits(vertexCount) ==
    IF vertexCount < 255 THEN 8 ELSE IF vertexCount < 65535 THEN 16 ELSE 32

(***************************************************************************)
(* Math::DualComplex<T>: Dual<Complex<T>>, a real and a dual part, each a  *)
(* complex number.                                                         *)
(***************************************************************************)
Complex(re, im) == [real |-> re, imaginary |-> im]

\* Complex::conjugated()
ComplexConjugated(c) == Complex(c.real, -c.imaginary)

\* Complex::operator-()
ComplexNegated(c) == Complex(-c.real, -c.imaginary)

DualComplex(re, du) == [real |-> re, dual |-> du]

\* DualComplex(): Dual<Complex<T>>({}, {T(0), T(0)})
DualComplexDefault == DualComplex(Complex(1, 0), Complex(0, 0))

\* Dual::conjugated()
DualConjugated(d) == DualComplex(d.real, ComplexNegated(d.dual))

complexConjugated(c) ==
    DualComplex(ComplexConjugated(c.real), ComplexConjugated(c.dual))

dualConjugated(c) == DualConjugated(c)

\* a faulty variant of conjugated: the dual part is only negated
conjugated_DualNegated(c) ==
    DualComplex(ComplexConjugated(c.real),
                Complex(-c.dual.real, -c.dual.imaginary))

conjugated(c) ==
    DualComplex(ComplexConjugated(c.real),
                Complex(-c.dual.real, c.dual.imaginary))

Components == (-MaxComponent)..MaxComponent

DualComplexes ==
    {DualComplex(Complex(a, b), Complex(x, y)) :
        a \in Components, b \in Components, x \in Components, y \in Components}

(***************************************************************************)
(* State.                                                                  *)
(*   _capacity, vertexBuffer, indexBuffer, _mesh, _rectangle: the fields   *)
(*     of one TextRenderer<2>                                              *)
(*   call: the most recent call of the API, its arguments and what it      *)
(*     returned (the static render() functions keep no state)              *)
(*   sel:  the last index type selection tried (SpecSelect)                *)
(*   dc:   a dual complex number and the operation that produced it        *)
(*     (SpecDual)                                                          *)
(***************************************************************************)
VARIABLES _capacity, vertexBuffer, indexBuffer, _mesh, _rectangle, call, sel, dc

renderer == <<_capacity, vertexBuffer, indexBuffer, _mesh, _rectangle>>

vars == <<_capacity, vertexBuffer, indexBuffer, _mesh, _rectangle, call, sel, dc>>

NoCall == [op |-> "none", text |-> <<>>, count |-> 0, ok |-> TRUE]

NoSelection == [done |-> FALSE, vertexCount |-> 0]

\* TextRenderer::TextRenderer(font, size)
Constructed ==
    /\ _capacity = 0
    /\ vertexBuffer = BufferNew
    /\ indexBuffer = BufferNew
    /\ _mesh = MeshNew
    /\ _rectangle = RectangleDefault
    /\ call = NoCall

(***************************************************************************)
(* TextRenderer::reserve                                                   *)
(***************************************************************************)
reserve(count, fill) ==
    LET vertexCount == count * 4
        indexCount == count * 6
        vb == setData(vertexBuffer, vertexCount * SizeofVertex,
                      Uninitialized(vertexCount, UninitializedVertex(fill)))
        indexType == reserveIndexType(vertexCount)
        indicesSize == reserveIndicesSize(vertexCount, indexCount)
        bits == reservePrefillBits(vertexCount)
        \* the allocated store, seen as the array of T that map() returns
        ib == setData(indexBuffer, indicesSize,
                      Uninitialized(indicesSize \div (bits \div 8), fill))
        indices == map(ib, fill)
        filled == [indices EXCEPT !.data = createIndices(bits, indices.data, count)]
    IN  /\ _capacity' = count
        /\ vertexBuffer' = vb
        /\ _mesh' = [_mesh EXCEPT !.vertexCount = 0, !.indexCount = 0,
                                  !.indexType = indexType, !.indexStart = 0,
                                  !.indexEnd = vertexCount]
        /\ indexBuffer' = unmap(filled)
        /\ call' = [op |-> "reserve", text |-> <<>>, count |-> count, ok |-> TRUE]
        /\ UNCHANGED <<_rectangle, sel, dc>>

(***************************************************************************)
(* TextRenderer::render(const std::string&)                                *)
(***************************************************************************)
RECURSIVE renderLoop(_, _, _, _, _)
\* the loop over the glyphs from glyph i on: the mapped vertices and _rectangle
renderLoop(layouter, i, cursorPosition, vertices, rectangle) ==
    IF i = glyphCount(layouter)
    THEN [vertices |-> vertices, rectangle |-> rectangle]
    ELSE LET glyph == renderGlyph(layouter, cursorPosition, i)
             quadPosition == glyph[1]
             textureCoordinates == glyph[2]
             advance == glyph[3]
             rect == IF i = 0
                     THEN [rectangle EXCEPT !.bottomLeft = bottomLeft(quadPosition)]
                     ELSE IF i = glyphCount(layouter) - 1
                     THEN [rectangle EXCEPT !.topRight = topRight(quadPosition)]
                     ELSE rectangle
             vertex == i * 4
             written ==
                 [vertices EXCEPT
                    ![vertex] = Vertex(point(topLeft(quadPosition)),
                                       topLeft(textureCoordinates)),
                    ![vertex + 1] = Vertex(point(bottomLeft(quadPosition)),
                                           bottomLeft(textureCoordinates)),
                    ![vertex + 2] = Vertex(point(topRight(quadPosition)),
                                           topRight(textureCoordinates)),
                    ![vertex + 3] = Vertex(point(bottomRight(quadPosition)),
                                           bottomRight(textureCoordinates))]
         IN  renderLoop(layouter, i + 1, VecAdd(cursorPosition, advance),
                        written, rect)

\* a faulty variant of renderCapacityCheck: the assertion is missing
renderCapacityCheck_None(layouter) == TRUE

\* the condition of the CORRADE_ASSERT of render()
renderCapacityCheck(layouter) == glyphCount(layouter) <= _capacity

\* a faulty variant of renderUnmap: the vertex buffer stays mapped
renderUnmap_Missing(buf) == buf

\* CORRADE_INTERNAL_ASSERT_OUTPUT(vertexBuffer.unmap())
renderUnmap(buf) == unmap(buf)

\* a faulty variant of renderIndexCount: the vertex count is taken for the index count
renderIndexCount_Vertices(layouter) == glyphCount(layouter) * 4

\* the argument of _mesh.setIndexCount in render()
renderIndexCount(layouter) == glyphCount(layouter) * 6

render(text, fill) ==
    LET layouter == TextLayouter(RenderSize, text)
    IN  IF ~renderCapacityCheck(layouter)
        THEN \* CORRADE_ASSERT: the message is printed and the call returns
             /\ call' = [op |-> "render", text |-> text, count |-> Len(text),
                         ok |-> FALSE]
             /\ UNCHANGED <<renderer, sel, dc>>
        ELSE LET vertices == map(vertexBuffer, UninitializedVertex(fill))
                 done == renderLoop(layouter, 0, VecZero, vertices.data,
                                    _rectangle)
                 written == [vertices EXCEPT !.data = done.vertices]
             IN  /\ vertexBuffer' = renderUnmap(written)
                 /\ _rectangle' = done.rectangle
                 /\ _mesh' = [_mesh EXCEPT !.indexCount = renderIndexCount(layouter)]
                 /\ call' = [op |-> "render", text |-> text, count |-> Len(text),
                             ok |-> TRUE]
                 /\ UNCHANGED <<_capacity, indexBuffer, sel, dc>>

(***************************************************************************)
(* The static render() functions.  They read and write no state of their   *)
(* own: each is an operator from its arguments to what it returns (and to  *)
(* the caller's buffers as it leaves them), and call records that it was   *)
(* called and with what.                                                   *)
(***************************************************************************)
RECURSIVE renderArraysLoop(_, _, _, _, _)
\* the loop of the array-producing render() from glyph i on
renderArraysLoop(layouter, i, cursorPosition, positions, texcoords) ==
    IF i = glyphCount(layouter)
    THEN [positions |-> positions, texcoords |-> texcoords]
    ELSE LET glyph == renderGlyph(layouter, cursorPosition, i)
             quadPosition == glyph[1]
             textureCoordinates == glyph[2]
             advance == glyph[3]
         IN  renderArraysLoop(layouter, i + 1, VecAdd(cursorPosition, advance),
                 InsertAtEnd(positions, <<point(topLeft(quadPosition)),
                                          point(bottomLeft(quadPosition)),
                                          point(topRight(quadPosition)),
                                          point(bottomRight(quadPosition))>>),
                 InsertAtEnd(texcoords, <<topLeft(textureCoordinates),
                                          bottomLeft(textureCoordinates),
                                          topRight(textureCoordinates),
                                          bottomRight(textureCoordinates)>>))

\* a faulty variant of renderArraysRectangle: the corners are taken from the first and
\* the last vertex
renderArraysRectangle_Ends(layouter, positions) ==
    IF glyphCount(layouter) # 0
    THEN Rectangle(xy(positions[0]), xy(positions[Size(positions) - 1]))
    ELSE RectangleDefault

\* "Rendered rectangle" of the array-producing render()
renderArraysRectangle(layouter, positions) ==
    IF glyphCount(layouter) # 0
    THEN Rectangle(xy(positions[1]), xy(positions[Size(positions) - 2]))
    ELSE RectangleDefault

\* render(Font&, GLfloat, const std::string&): what it returns
renderArrays(sz, text) ==
    LET layouter == TextLayouter(sz, text)
        done == renderArraysLoop(layouter, 0, VecZero, Uninitialized(0, 0),
                                 Uninitialized(0, 0))
        indices == createIndices(32, Uninitialized(glyphCount(layouter) * 6, 0),
                                 glyphCount(layouter))
    IN  [positions |-> done.positions, texcoords |-> done.texcoords,
         indices |-> indices,
         rectangle |-> renderArraysRectangle(layouter, done.positions)]

\* a call of render(Font&, GLfloat, const std::string&)
CallRenderArrays(sz, text) ==
    /\ call' = [op |-> "renderArrays", text |-> text, count |-> Len(text),
                ok |-> TRUE, size |-> sz]
    /\ UNCHANGED <<renderer, sel, dc>>

RECURSIVE renderBuffersLoop(_, _, _, _)
\* the loop of the GPU-buffer render() from glyph i on
renderBuffersLoop(layouter, i, cursorPosition, vertices) ==
    IF i = glyphCount(layouter)
    THEN vertices
    ELSE LET glyph == renderGlyph(layouter, cursorPosition, i)
             quadPosition == glyph[1]
             textureCoordinates == glyph[2]
             advance == glyph[3]
         IN  renderBuffersLoop(layouter, i + 1, VecAdd(cursorPosition, advance),
                 InsertAtEnd(vertices,
                     <<Vertex(point(topLeft(quadPosition)),
                              topLeft(textureCoordinates)),
                       Vertex(point(bottomLeft(quadPosition)),
                              bottomLeft(textureCoordinates)),
                       Vertex(point(topRight(quadPosition)),
                              topRight(textureCoordinates)),
                       Vertex(point(bottomRight(quadPosition)),
                              bottomRight(textureCoordinates))>>))

\* render(Font&, GLfloat, const std::string&, Buffer*, Buffer*, Buffer::Usage):
\* what it returns, and the caller's two buffers as it leaves them; fill is
\* what new char[] holds
renderBuffers(sz, text, callerVertexBuffer, callerIndexBuffer, fill) ==
    LET layouter == TextLayouter(sz, text)
        vertexCount == glyphCount(layouter) * 4
        indexCount == glyphCount(layouter) * 6
        vertices == renderBuffersLoop(layouter, 0, VecZero, Uninitialized(0, 0))
        indexType == staticIndexType(vertexCount)
        indicesSize == staticIndicesSize(vertexCount, indexCount)
        bits == staticFillBits(vertexCount)
        \* new char[indicesSize], seen as the array of T createIndices writes
        indices == createIndices(bits,
                       Uninitialized(indicesSize \div (bits \div 8), fill),
                       glyphCount(layouter))
        rectangle == IF glyphCount(layouter) # 0
                     THEN Rectangle(xy(vertices[1].position),
                                    xy(vertices[Size(vertices) - 2].position))
                     ELSE RectangleDefault
        mesh == [MeshNew EXCEPT !.indexCount = indexCount,
                                !.indexType = indexType, !.indexStart = 0,
                                !.indexEnd = vertexCount]
    IN  [vertexBuffer |-> setData(callerVertexBuffer,
                                  Size(vertices) * SizeofVertex, vertices),
         indexBuffer |-> setData(callerIndexBuffer, indicesSize, indices),
         mesh |-> mesh, rectangle |-> rectangle]

\* a call of the GPU-buffer render() with two fresh buffers
CallRenderBuffers(sz, text, fill) ==
    /\ call' = [op |-> "renderBuffers", text |-> text, count |-> Len(text),
                ok |-> TRUE, size |-> sz, fill |-> fill]
    /\ UNCHANGED <<renderer, sel, dc>>

(***************************************************************************)
(* The renderer and the static functions under every sequence of calls.    *)
(***************************************************************************)
Init ==
    /\ Constructed
    /\ sel = NoSelection
    /\ dc = [op |-> "none", value |-> DualComplexDefault,
             arg |-> DualComplexDefault]

Next ==
    \/ \E count \in 0..MaxCapacity, fill \in GarbageValues : reserve(count, fill)
    \/ \E text \in Texts, fill \in GarbageValues : render(text, fill)
    \/ \E text \in Texts : CallRenderArrays(RenderSize, text)
    \/ \E text \in Texts, fill \in GarbageValues :
          CallRenderBuffers(RenderSize, text, fill)

Spec == Init /\ [][Next]_vars

(***************************************************************************)
(* reserve() over the glyph counts at which GLubyte positions wrap.        *)
(***************************************************************************)
NextIndices ==
    \/ \E count \in 0..MaxReserve, fill \in GarbageValues : reserve(count, fill)
    \/ \E fill \in GarbageValues : render(<<>>, fill)

SpecIndices == Init /\ [][NextIndices]_vars

(***************************************************************************)
(* The selection of the index type, as a function of the vertex count.     *)
(* reserve() and the GPU-buffer render() compute vertexCount as            *)
(* glyphCount*4; the selection is tried on every vertex count around the   *)
(* two thresholds.                                                         *)
(***************************************************************************)
VertexCounts ==
    (0..MaxLowVertexCount)
        \cup (HighVertexCountFrom..(HighVertexCountFrom + MaxHighSpan))

\* the selections of reserve() and of the GPU-buffer render() for vertexCount;
\* stride is the allocated size per index
SelectIndexType(vertexCount) ==
    /\ sel' = [done |-> TRUE, vertexCount |-> vertexCount,
               reserveType |-> reserveIndexType(vertexCount),
               reserveStride |-> reserveIndicesSize(vertexCount, 1),
               reserveBits |-> reservePrefillBits(vertexCount),
               staticType |-> staticIndexType(vertexCount),
               staticStride |-> staticIndicesSize(vertexCount, 1),
               staticBits |-> staticFillBits(vertexCount)]
    /\ UNCHANGED <<renderer, call, dc>>

NextSelect == \E vertexCount \in VertexCounts : SelectIndexType(vertexCount)

SpecSelect == Init /\ [][NextSelect]_vars

(***************************************************************************)
(* The conjugations of a dual complex number.                              *)
(***************************************************************************)
InitDual ==
    /\ Constructed
    /\ sel = NoSelection
    /\ dc \in {[op |-> "none", value |-> c, arg |-> c] : c \in DualComplexes}

ComplexConjugate ==
    /\ dc' = [op |-> "complexConjugated", value |-> complexConjugated(dc.value),
              arg |-> dc.value]
    /\ UNCHANGED <<renderer, call, sel>>

DualConjugate ==
    /\ dc' = [op |-> "dualConjugated", value |-> dualConjugated(dc.value),
              arg |-> dc.value]
    /\ UNCHANGED <<renderer, call, sel>>

Conjugate ==
    /\ dc' = [op |-> "conjugated", value |-> conjugated(dc.value),
              arg |-> dc.value]
    /\ UNCHANGED <<renderer, call, sel>>

NextDual == ComplexConjugate \/ DualConjugate \/ Conjugate

SpecDual == InitDual /\ [][NextDual]_vars

(***************************************************************************)
(* The layout as the specification words it, written without renderGlyph   *)
(* and without the loops above: what the properties compare the code with. *)
(***************************************************************************)
\* advance and offset of glyph i, normalized
AdvanceOf(text, i) ==
    <<ShapeChar(text[i + 1]).x_advance \div (64 * FontSize),
      ShapeChar(text[i + 1]).y_advance \div (64 * FontSize)>>

OffsetOf(text, i) ==
    <<ShapeChar(text[i + 1]).x_offset \div (64 * FontSize),
      ShapeChar(text[i + 1]).y_offset \div (64 * FontSize)>>

RECURSIVE CursorAt(_, _)
\* the sum of the advances of glyphs 0..i-1
CursorAt(text, i) ==
    IF i = 0 THEN <<0, 0>>
    ELSE VecAdd(CursorAt(text, i - 1), AdvanceOf(text, i - 1))

\* the quad of glyph i: origin (cursor + offset + quadRect.bottomLeft)*size,
\* extent quadRect.size*size
ExpectedQuad(sz, text, i) ==
    LET quadRect == Font(ShapeChar(text[i + 1]).codepoint)[1]
        origin == <<(CursorAt(text, i)[1] + OffsetOf(text, i)[1]
                        + quadRect.bottomLeft[1]) * sz,
                    (CursorAt(text, i)[2] + OffsetOf(text, i)[2]
                        + quadRect.bottomLeft[2]) * sz>>
        extent == <<(quadRect.topRight[1] - quadRect.bottomLeft[1]) * sz,
                    (quadRect.topRight[2] - quadRect.bottomLeft[2]) * sz>>
    IN  [bottomLeft |-> origin,
         topRight |-> <<origin[1] + extent[1], origin[2] + extent[2]>>]

\* corner k of a rectangle in the order top-left, bottom-left, top-right,
\* bottom-right
Corner(r, k) ==
    IF k = 0 THEN <<r.bottomLeft[1], r.topRight[2]>>
    ELSE IF k = 1 THEN r.bottomLeft
    ELSE IF k = 2 THEN r.topRight
    ELSE <<r.topRight[1], r.bottomLeft[2]>>

\* vertex 4i+k of a text
ExpectedVertex(sz, text, i, k) ==
    [position |-> <<Corner(ExpectedQuad(sz, text, i), k)[1],
                    Corner(ExpectedQuad(sz, text, i), k)[2], 1>>,
     texcoords |-> Corner(Font(ShapeChar(text[i + 1]).codepoint)[2], k)]

\* the two triangles of a quad, relative to its first vertex
QuadPattern == <<0, 1, 2, 1, 3, 2>>

(***************************************************************************)
(* Properties.                                                             *)
(***************************************************************************)

\* C1: a render(text) with glyphCount(text) > capacity fails the capacity
\* check and changes nothing of the renderer: capacity, the mesh with its
\* active index count, the contents of both buffers and the rectangle are as
\* before the call, and no buffer is left mapped.
C1_CapacityExceededChangesNothing ==
    [][(call'.op = "render" /\ call'.count > _capacity)
          => /\ ~call'.ok
             /\ _capacity' = _capacity
             /\ _mesh' = _mesh
             /\ vertexBuffer' = vertexBuffer
             /\ indexBuffer' = indexBuffer
             /\ _rectangle' = _rectangle
             /\ ~vertexBuffer'.mapped
             /\ ~indexBuffer'.mapped]_vars

\* a refused render() on a renderer that holds a rendered text
C1_Witness ==
    /\ call.op = "render"
    /\ ~call.ok
    /\ call.count > _capacity
    /\ _capacity >= 1
    /\ _mesh.indexCount > 0
    /\ _rectangle # RectangleDefault

\* C2: after a successful render(text) of at least one glyph, _rectangle
\* spans from the bottom-left of the first glyph's quad to the top-right of
\* the last glyph's quad of that render.
C2_RectangleSpansFirstToLast ==
    (call.op = "render" /\ call.ok /\ call.count >= 1)
        => _rectangle =
             [bottomLeft |-> ExpectedQuad(RenderSize, call.text, 0).bottomLeft,
              topRight |->
                  ExpectedQuad(RenderSize, call.text, call.count - 1).topRight]

\* C3: after reserve(N) the index buffer holds, for every glyph i < N, the
\* values 4i+0, 4i+1, 4i+2, 4i+1, 4i+3, 4i+2 at 6i..6i+5, at the width of the
\* selected index type.
C3_IndexPattern ==
    \A i \in 0..(_capacity - 1) : \A k \in 0..5 :
        indexBuffer.data[6 * i + k]
            = Wrap(4 * i + QuadPattern[k + 1], IndexTypeBits(_mesh.indexType))

\* C4: a successful render(text) sets the active index count to
\* 6*glyphCount(text) and leaves the index buffer (contents and size), the
\* index type, the capacity and the size of the vertex buffer as they were;
\* so does render("") after reserve(N), with index count 0.
C4_RenderKeepsIndexBuffer ==
    [][(call'.op = "render" /\ call'.ok)
          => /\ _mesh'.indexCount = 6 * call'.count
             /\ indexBuffer'.data = indexBuffer.data
             /\ indexBuffer'.size = indexBuffer.size
             /\ vertexBuffer'.size = vertexBuffer.size
             /\ _mesh'.indexType = _mesh.indexType
             /\ _capacity' = _capacity]_vars

\* render("") on a reserved renderer: no active index, the prefill in place
C4_Witness ==
    /\ call.op = "render"
    /\ call.ok
    /\ call.count = 0
    /\ _capacity >= 1
    /\ _mesh.indexCount = 0
    /\ indexBuffer.size = 6 * _capacity * SizeofGLushort
    /\ \A k \in 0..5 : indexBuffer.data[k] = QuadPattern[k + 1]

\* C5: reserve() and the GPU-buffer render() select 8-bit indices for
\* vertexCount < 255, 16-bit for 255 <= vertexCount < 65535 and 32-bit
\* otherwise (254, 255, 65534, 65535 give 8, 16, 16, 32 bits), 8-bit indices
\* are allocated at the 16-bit stride, and the buffer is filled at the width
\* of the selected type.
C5_IndexTypeThresholds ==
    sel.done =>
        LET expected == IF sel.vertexCount < 255 THEN "UnsignedByte"
                        ELSE IF sel.vertexCount < 65535 THEN "UnsignedShort"
                        ELSE "UnsignedInt"
        IN  /\ sel.reserveType = expected
            /\ sel.staticType = expected
            /\ sel.vertexCount = 254 => sel.reserveType = "UnsignedByte"
            /\ sel.vertexCount = 255 => sel.reserveType = "UnsignedShort"
            /\ sel.vertexCount = 65534 => sel.reserveType = "UnsignedShort"
            /\ sel.vertexCount = 65535 => sel.reserveType = "UnsignedInt"
            /\ sel.reserveBits = IndexTypeBits(sel.reserveType)
            /\ sel.staticBits = IndexTypeBits(sel.staticType)
            /\ sel.reserveStride = (IF expected = "UnsignedInt" THEN 4 ELSE 2)
            /\ sel.staticStride = sel.reserveStride

\* the selection at the first threshold
C5_Witness ==
    /\ sel.done
    /\ sel.vertexCount = 255
    /\ sel.reserveType = "UnsignedShort"
    /\ sel.reserveBits = 16

\* the narrowest of the three index types whose range contains v
NarrowestContaining(v) ==
    IF v <= 255 THEN "UnsignedByte"
    ELSE IF v <= 65535 THEN "UnsignedShort"
    ELSE "UnsignedInt"

\* C6 as stated: for every glyph count N >= 1 the selected index type is the
\* narrowest whose range contains the largest index value 4N - 1.
C6_NarrowestForLargestIndex ==
    (sel.done /\ sel.vertexCount >= 4 /\ sel.vertexCount % 4 = 0)
        => /\ sel.reserveType = NarrowestContaining(sel.vertexCount - 1)
           /\ sel.staticType = NarrowestContaining(sel.vertexCount - 1)

\* C6 as amended: for every glyph count N >= 1 the selected index type is the
\* narrowest whose range contains the vertex count 4N itself; it is therefore
\* wide enough for the largest index 4N - 1.
C6_NarrowestForVertexCount ==
    (sel.done /\ sel.vertexCount >= 4 /\ sel.vertexCount % 4 = 0)
        => /\ sel.reserveType = NarrowestContaining(sel.vertexCount)
           /\ sel.staticType = NarrowestContaining(sel.vertexCount)
           /\ IndexTypeBits(NarrowestContaining(sel.vertexCount - 1))
                 <= IndexTypeBits(sel.reserveType)

\* 64 glyphs: the largest index 255 would fit 8 bits, 16 bits are selected
C6_Witness ==
    /\ sel.done
    /\ sel.vertexCount = 256
    /\ sel.reserveType = "UnsignedShort"
    /\ sel.staticType = "UnsignedShort"

\* C7: the array-producing render() of a text of N glyphs returns 4N
\* positions, 4N texcoords and 6N indices, quad i using 0,1,2,1,3,2 offset by
\* 4i, and the rectangle from positions[1] to positions[4N-2], which are the
\* bottom-left of glyph 0 and the top-right of glyph N-1; for N = 0 the arrays
\* are empty and the rectangle is the default one.
C7_ArraysOfStaticRender ==
    call.op = "renderArrays" =>
        LET r == renderArrays(call.size, call.text)
            N == call.count
        IN  /\ DOMAIN r.positions = 0..(4 * N - 1)
            /\ DOMAIN r.texcoords = 0..(4 * N - 1)
            /\ DOMAIN r.indices = 0..(6 * N - 1)
            /\ \A i \in 0..(N - 1) : \A k \in 0..5 :
                  r.indices[6 * i + k] = 4 * i + QuadPattern[k + 1]
            /\ N = 0 => r.rectangle = [bottomLeft |-> <<0, 0>>,
                                       topRight |-> <<0, 0>>]
            /\ N >= 1 =>
                  /\ r.rectangle.bottomLeft
                        = <<r.positions[1][1], r.positions[1][2]>>
                  /\ r.rectangle.topRight
                        = <<r.positions[4 * N - 2][1], r.positions[4 * N - 2][2]>>
                  /\ r.rectangle.bottomLeft
                        = ExpectedQuad(call.size, call.text, 0).bottomLeft
                  /\ r.rectangle.topRight
                        = ExpectedQuad(call.size, call.text, N - 1).topRight

\* a static render of two different glyphs
C7_Witness ==
    /\ call.op = "renderArrays"
    /\ call.count = 2
    /\ call.text[1] # call.text[2]

\* C8: whenever a call of reserve() or render() has returned, neither buffer
\* is mapped, no buffer was mapped while mapped and none unmapped while not
\* mapped: each map() was followed by exactly one unmap() within the call.
C8_NoBufferLeftMapped ==
    /\ ~vertexBuffer.mapped
    /\ ~indexBuffer.mapped
    /\ ~vertexBuffer.misuse
    /\ ~indexBuffer.misuse

\* a render() that mapped and wrote the vertex buffer has returned
C8_Witness ==
    /\ call.op = "render"
    /\ call.ok
    /\ call.count >= 1
    /\ vertexBuffer.data[0] = ExpectedVertex(RenderSize, call.text, 0, 0)
    /\ ~vertexBuffer.mapped

\* C9: both conjugations of a dual complex number are involutions, and
\* conjugated() is their composition in either order.
C9_Conjugations ==
    /\ complexConjugated(complexConjugated(dc.value)) = dc.value
    /\ dualConjugated(dualConjugated(dc.value)) = dc.value
    /\ conjugated(dc.value) = dualConjugated(complexConjugated(dc.value))
    /\ conjugated(dc.value) = complexConjugated(dualConjugated(dc.value))
    /\ dc.op = "complexConjugated" => complexConjugated(dc.value) = dc.arg
    /\ dc.op = "dualConjugated" => dualConjugated(dc.value) = dc.arg
    /\ dc.op = "conjugated" =>
          dc.value = complexConjugated(dualConjugated(dc.arg))

\* conjugated() applied to a number with no zero component
C9_Witness ==
    /\ dc.op = "conjugated"
    /\ dc.arg.real.real # 0
    /\ dc.arg.real.imaginary # 0
    /\ dc.arg.dual.real # 0
    /\ dc.arg.dual.imaginary # 0
    /\ dc.value # dc.arg

\* C10: every render entry point starts the cursor at zero and lays glyph i
\* out at the sum of the advances of glyphs 0..i-1: its quad has origin
\* (cursor + offset_i + quadRect_i.bottomLeft)*size and extent
\* quadRect_i.size*size, and its vertices are at 4i..4i+3 in the order
\* top-left, bottom-left, top-right, bottom-right.
C10_GlyphLayout ==
    /\ (call.op = "render" /\ call.ok) =>
          \A i \in 0..(call.count - 1) : \A k \in 0..3 :
              vertexBuffer.data[4 * i + k]
                  = ExpectedVertex(RenderSize, call.text, i, k)
    /\ call.op = "renderArrays" =>
          \A i \in 0..(call.count - 1) : \A k \in 0..3 :
              /\ renderArrays(call.size, call.text).positions[4 * i + k]
                    = ExpectedVertex(call.size, call.text, i, k).position
              /\ renderArrays(call.size, call.text).texcoords[4 * i + k]
                    = ExpectedVertex(call.size, call.text, i, k).texcoords
    /\ call.op = "renderBuffers" =>
          \A i \in 0..(call.count - 1) : \A k \in 0..3 :
              renderBuffers(call.size, call.text, BufferNew, BufferNew,
                            call.fill).vertexBuffer.data[4 * i + k]
                  = ExpectedVertex(call.size, call.text, i, k)

\* a render() into the reserved buffers whose second glyph follows a glyph
\* with an offset and an advance in both directions
C10_Witness ==
    /\ call.op = "render"
    /\ call.ok
    /\ call.count = 2
    /\ call.text[1] = "b"
    /\ vertexBuffer.data[4] = ExpectedVertex(RenderSize, call.text, 1, 0)

\* C11: after a successful render(text) the first 4*glyphCount vertex
\* records, the active index count, the indices it selects and the bounding
\* rectangle of the renderer equal the positions and texcoords, the number of
\* indices, the indices and the rectangle that the array-producing render()
\* returns for the same size and text, whatever calls came before.
C11_RenderEqualsStaticRender ==
    (call.op = "render" /\ call.ok) =>
        LET r == renderArrays(RenderSize, call.text)
            N == call.count
        IN  /\ \A v \in 0..(4 * N - 1) :
                  /\ vertexBuffer.data[v].position = r.positions[v]
                  /\ vertexBuffer.data[v].texcoords = r.texcoords[v]
            /\ _mesh.indexCount = Size(r.indices)
            /\ \A k \in 0..(_mesh.indexCount - 1) :
                  indexBuffer.data[k] = r.indices[k]
            /\ _rectangle = r.rectangle

=============================================================================
